---------------------------- MODULE Spec2Model ----------------------------
(***************************************************************************)
(* Model of jax/scipy/sparse/linalg.py: the matrix-free Krylov solvers cg  *)
(* and gmres, their entry-point validation, the CG loop, the GMRES restart *)
(* loop, the Arnoldi step, the Givens update and the two restart variants. *)
(*                                                                         *)
(* Numbers.  A floating-point value is NaN, +Inf, -Inf or a decimal        *)
(* floating-point number m * 10^e with a mantissa of Digits significant    *)
(* digits and an unbounded exponent.  Every operation rounds its exact     *)
(* result to the nearest such number (sqrt to within one unit in the last  *)
(* place) and follows the IEEE rules for the special values: 0*Inf = NaN,  *)
(* x/0 = Inf, NaN compares false with everything.  Zero carries no sign.   *)
(*                                                                         *)
(* Vectors.  A structured vector (pytree) is a record [struct, leaves]:    *)
(* its tree definition and the sequence of its leaves, each leaf a         *)
(* one-dimensional array.  Leaf-wise arithmetic on congruent trees is      *)
(* arithmetic on the concatenated leaves, which is how the solvers' state  *)
(* is stored once the entry point has let the arguments through.           *)
(***************************************************************************)
EXTENDS Integers, Sequences, FiniteSets, TLC

(***************************************************************************)
(* Integer helpers                                                         *)
(***************************************************************************)
IAbs(i) == IF i < 0 THEN -i ELSE i
IMin(i, j) == IF i <= j THEN i ELSE j

RECURSIVE Pow10(_)
Pow10(k) == IF k = 0 THEN 1 ELSE 10 * Pow10(k - 1)

\* number of decimal digits of a natural number
RECURSIVE NDigits(_)
NDigits(n) == IF n < 10 THEN 1 ELSE 1 + NDigits(n \div 10)

\* floor of the square root of a natural number
RECURSIVE ISqrt(_)
ISqrt(n) ==
  IF n < 2 THEN n
  ELSE LET s == 2 * ISqrt(n \div 4)
       IN  IF (s + 1) * (s + 1) <= n THEN s + 1 ELSE s

(***************************************************************************)
(* Floating-point numbers                                                  *)
(***************************************************************************)
\* significant decimal digits of the element type
Digits == 4

NaN == [t |-> "nan", m |-> 0, e |-> 0]
PInf == [t |-> "inf", m |-> 1, e |-> 0]
NInf == [t |-> "inf", m |-> -1, e |-> 0]
InfS(s) == IF s >= 0 THEN PInf ELSE NInf

\* mag * 10^e without trailing zeros in the mantissa (mag > 0)
RECURSIVE Strip(_, _)
Strip(mag, e) == IF mag % 10 = 0 THEN Strip(mag \div 10, e + 1) ELSE <<mag, e>>

\* mag * 10^e rounded to Digits digits, ties away from zero (mag > 0)
Round(mag, e) ==
  LET sh == NDigits(mag) - Digits
  IN  IF sh <= 0 THEN Strip(mag, e)
      ELSE Strip((mag + 5 * Pow10(sh - 1)) \div Pow10(sh), e + sh)

\* the floating-point number nearest to m * 10^e
Fin(m, e) ==
  IF m = 0 THEN [t |-> "fin", m |-> 0, e |-> 0]
  ELSE LET r == Round(IAbs(m), e)
       IN  [t |-> "fin", m |-> (IF m < 0 THEN -r[1] ELSE r[1]), e |-> r[2]]

I(i) == Fin(i, 0)
Zero == I(0)
One == I(1)

IsNan(x) == x.t = "nan"
IsInf(x) == x.t = "inf"
IsFin(x) == x.t = "fin"
Sgn(x) == IF x.m > 0 THEN 1 ELSE IF x.m < 0 THEN -1 ELSE 0
\* the position of the leading digit of a finite non-zero x
Top(x) == x.e + NDigits(IAbs(x.m))

Neg(x) == [x EXCEPT !.m = -x.m]
FAbs(x) == [x EXCEPT !.m = IAbs(x.m)]

Mul(x, y) ==
  IF IsNan(x) \/ IsNan(y) THEN NaN
  ELSE IF IsInf(x) \/ IsInf(y)
       THEN IF Sgn(x) = 0 \/ Sgn(y) = 0 THEN NaN ELSE InfS(Sgn(x) * Sgn(y))
       ELSE Fin(x.m * y.m, x.e + y.e)

Add(x, y) ==
  IF IsNan(x) \/ IsNan(y) THEN NaN
  ELSE IF IsInf(x) /\ IsInf(y) THEN (IF x.m = y.m THEN x ELSE NaN)
  ELSE IF IsInf(x) THEN x
  ELSE IF IsInf(y) THEN y
  ELSE IF y.m = 0 THEN x
  ELSE IF x.m = 0 THEN y
  ELSE IF Top(x) - Top(y) > Digits + 1 THEN x
  ELSE IF Top(y) - Top(x) > Digits + 1 THEN y
  ELSE LET e == IMin(x.e, y.e)
       IN  Fin(x.m * Pow10(x.e - e) + y.m * Pow10(y.e - e), e)

Sub(x, y) == Add(x, Neg(y))

\* x / y; a zero divisor gives NaN for 0/0 and an infinity of x's sign otherwise
Div(x, y) ==
  IF IsNan(x) \/ IsNan(y) THEN NaN
  ELSE IF IsInf(x) THEN (IF IsInf(y) THEN NaN
                         ELSE InfS(x.m * (IF Sgn(y) < 0 THEN -1 ELSE 1)))
  ELSE IF IsInf(y) THEN Zero
  ELSE IF y.m = 0 THEN (IF x.m = 0 THEN NaN ELSE InfS(x.m))
  ELSE LET sh == 2 * Digits + 1 - NDigits(IAbs(x.m))
       IN  Fin(Sgn(x) * Sgn(y) * ((IAbs(x.m) * Pow10(sh)) \div IAbs(y.m)),
               x.e - y.e - sh)

\* x > y for positive finite x, y
PosGt(x, y) ==
  IF Top(x) # Top(y) THEN Top(x) > Top(y)
  ELSE LET e == IMin(x.e, y.e)
       IN  x.m * Pow10(x.e - e) > y.m * Pow10(y.e - e)

\* the comparison x > y of floating-point values (false when either is NaN)
Gt(x, y) ==
  IF IsNan(x) \/ IsNan(y) THEN FALSE
  ELSE IF IsInf(x) THEN x.m > 0 /\ y # PInf
  ELSE IF IsInf(y) THEN y.m < 0
  ELSE IF Sgn(x) # Sgn(y) THEN Sgn(x) > Sgn(y)
  ELSE IF Sgn(x) = 0 THEN FALSE
  ELSE IF Sgn(x) > 0 THEN PosGt(x, y)
  ELSE PosGt(Neg(y), Neg(x))

Lt(x, y) == Gt(y, x)
\* the comparison x == y of floating-point values (NaN equals nothing)
FEq(x, y) == ~IsNan(x) /\ ~IsNan(y) /\ x = y

\* jnp.maximum: NaN if either argument is NaN
FMaximum(x, y) == IF IsNan(x) \/ IsNan(y) THEN NaN ELSE IF Gt(y, x) THEN y ELSE x
\* Python's builtin min(x, y): y if y < x, else x
PyMin(x, y) == IF Lt(y, x) THEN y ELSE x

Square(x) == Mul(x, x)

Sqrt(x) ==
  IF IsNan(x) THEN NaN
  ELSE IF IsInf(x) THEN (IF x.m > 0 THEN PInf ELSE NaN)
  ELSE IF x.m < 0 THEN NaN
  ELSE IF x.m = 0 THEN Zero
  ELSE LET j0 == 2 * Digits - NDigits(x.m)
           j  == IF (x.e - j0) % 2 = 0 THEN j0 ELSE j0 + 1
       IN  Fin(ISqrt(x.m * Pow10(j)), (x.e - j) \div 2)

(***************************************************************************)
(* Structured-vector algebra on the concatenated leaves                    *)
(***************************************************************************)
\* the sequence f[1], ..., f[n] with every entry evaluated once
Arr(f, n) == SubSeq(f, 1, n)

RECURSIVE SumSeq(_)
SumSeq(s) == IF Len(s) = 0 THEN Zero ELSE Add(SumSeq(SubSeq(s, 1, Len(s) - 1)), s[Len(s)])

ZerosLike(x) == Arr([i \in 1..Len(x) |-> Zero], Len(x))

\* the real-valued inner product of two real vectors
vdot_real_tree(x, y) == SumSeq(Arr([i \in 1..Len(x) |-> Mul(x[i], y[i])], Len(x)))
norm_tree(x) == Sqrt(vdot_real_tree(x, x))
mul(scalar, tree) == Arr([i \in 1..Len(tree) |-> Mul(scalar, tree[i])], Len(tree))
div(tree, scalar) == Arr([i \in 1..Len(tree) |-> Div(tree[i], scalar)], Len(tree))
add(x, y) == Arr([i \in 1..Len(x) |-> Add(x[i], y[i])], Len(x))
sub(x, y) == Arr([i \in 1..Len(x) |-> Sub(x[i], y[i])], Len(x))

\* jnp.finfo(dtype).eps: the distance from 1 to the next number
Eps == Fin(1, 1 - Digits)

\* the normalization as its docstring words it: zero only below the threshold
safe_normalize_lt(x, thresh) ==
  LET norm == norm_tree(x)
  IN  IF Lt(norm, thresh) THEN <<ZerosLike(x), Zero>> ELSE <<div(x, norm), norm>>

\* <<normalized_x, norm>>; thresh is the caller's tolerance (Eps by default)
safe_normalize(x, thresh) ==
  LET norm == norm_tree(x)
  IN  IF Gt(norm, thresh) THEN <<div(x, norm), norm>> ELSE <<ZerosLike(x), Zero>>

(***************************************************************************)
(* Linear operators: A is a matrix-free function, here the product with a  *)
(* matrix (a sequence of rows); M is the identity object or such a function*)
(***************************************************************************)
MatVec(mat, x) == Arr([i \in 1..Len(mat) |-> vdot_real_tree(mat[i], x)], Len(mat))
identity == [id |-> TRUE, mat |-> <<>>]
Op(mat) == [id |-> FALSE, mat |-> mat]
Apply(op, x) == IF op.id THEN x ELSE MatVec(op.mat, x)

(***************************************************************************)
(* Arnoldi basis builder.  V is the sequence of the restart+1 basis        *)
(* columns (column k of the code is V[k+1]); H is the sequence of the      *)
(* restart rows of the code's matrix, each of length restart+1.            *)
(***************************************************************************)
\* A.T.conj() @ v: the overlap of v with every column
project_on_columns(V, v) == Arr([c \in 1..Len(V) |-> vdot_real_tree(V[c], v)], Len(V))

\* X @ h: the combination of the columns with coefficients h
RECURSIVE dot_cols(_, _, _)
dot_cols(V, h, c) ==
  IF c = 0 THEN ZerosLike(V[1])
  ELSE add(dot_cols(V, h, c - 1), mul(h[c], V[c]))
dot_tree(V, h) == dot_cols(V, h, Len(h))

\* one pass (iterations = 1) of classical Gram-Schmidt: <<q, r>>
iterative_classical_gram_schmidt(Qm, x) ==
  LET h  == project_on_columns(Qm, x)
      Qh == dot_tree(Qm, h)
  IN  <<sub(x, Qh), Arr([c \in 1..Len(h) |-> Add(Zero, h[c])], Len(h))>>

\* the k'th Arnoldi step (k counted from 0): [V, H, breakdown]
kth_arnoldi_iteration(k, A, M, V, H, tol) ==
  LET v0 == Apply(A, Apply(M, V[k + 1]))
      gs == iterative_classical_gram_schmidt(V, v0)
      sn == safe_normalize(gs[1], tol)
      h  == [gs[2] EXCEPT ![k + 2] = sn[2]]
  IN  [V |-> [V EXCEPT ![k + 2] = sn[1]],
       H |-> [H EXCEPT ![k + 1] = h],
       breakdown |-> FEq(sn[2], Zero)]

(***************************************************************************)
(* Givens-rotation least-squares updater                                   *)
(***************************************************************************)
apply_ith_rotation(i, H_row, givens) ==
  LET cs == givens[i + 1][1]
      sn == givens[i + 1][2]
      H_i   == Sub(Mul(cs, H_row[i + 1]), Mul(sn, H_row[i + 2]))
      H_ip1 == Add(Mul(sn, H_row[i + 1]), Mul(cs, H_row[i + 2]))
  IN  [H_row EXCEPT ![i + 1] = H_i, ![i + 2] = H_ip1]

\* lax.fori_loop(0, k, apply_ith_rotation, H_row)
RECURSIVE rotate_upto(_, _, _)
rotate_upto(k, H_row, givens) ==
  IF k = 0 THEN H_row
  ELSE apply_ith_rotation(k - 1, rotate_upto(k - 1, H_row, givens), givens)

givens_rotation(v1, v2) ==
  LET t == Sqrt(Add(Square(v1), Square(v2)))
  IN  <<Div(v1, t), Div(Neg(v2), t)>>

\* <<R_row, givens>>
apply_givens_rotations(H_row, givens, k) ==
  LET R0 == rotate_upto(k, H_row, givens)
      gf == givens_rotation(R0[k + 1], R0[k + 2])
      R1 == [R0 EXCEPT ![k + 1] = Sub(Mul(gf[1], R0[k + 1]), Mul(gf[2], R0[k + 2])),
                       ![k + 2] = Zero]
  IN  <<R1, [givens EXCEPT ![k + 1] = gf]>>

(***************************************************************************)
(* Small dense solves of the array library                                 *)
(***************************************************************************)
\* jnp.eye(restart, restart + 1)
eye(rows, cols) ==
  Arr([i \in 1..rows |-> Arr([j \in 1..cols |-> IF i = j THEN One ELSE Zero], cols)], rows)

\* y[i..n] of the upper-triangular system U y = rhs with U = R[:, :-1].T,
\* that is U[i][j] = R[j][i], by back substitution
RECURSIVE back_subst(_, _, _)
back_subst(R, rhs, i) ==
  LET n == Len(R)
  IN  IF i > n THEN <<>>
      ELSE LET tail == back_subst(R, rhs, i + 1)
               acc  == SumSeq(Arr([j \in 1..(n - i) |-> Mul(R[i + j][i], tail[j])], n - i))
           IN  <<Div(Sub(rhs[i], acc), R[i][i])>> \o tail
solve_triangular(R, rhs) == back_subst(R, rhs, 1)

\* the pivot search over rows 1..i of the first column: the first row whose
\* |m[i][1]| exceeds all before it (a comparison with NaN is false)
RECURSIVE pivot_scan(_, _)
pivot_scan(m, i) ==
  IF i = 1 THEN 1
  ELSE LET p == pivot_scan(m, i - 1)
       IN  IF Gt(FAbs(m[i][1]), FAbs(m[p][1])) THEN i ELSE p
pivot_row(m) == pivot_scan(m, Len(m))

\* the dense solve m y = rhs by elimination with partial pivoting; a zero
\* pivot is not divided by during elimination and yields Inf or NaN
RECURSIVE lu_solve(_, _)
lu_solve(m, rhs) ==
  LET n == Len(rhs)
  IN  IF n = 0 THEN <<>>
      ELSE LET p   == pivot_row(m)
               sw(i) == IF i = 1 THEN p ELSE IF i = p THEN 1 ELSE i
               m1  == Arr([i \in 1..n |-> m[sw(i)]], n)
               r1  == Arr([i \in 1..n |-> rhs[sw(i)]], n)
               piv == m1[1][1]
               f(i) == IF FEq(piv, Zero) THEN m1[i][1] ELSE Div(m1[i][1], piv)
               m2  == Arr([i \in 1..(n - 1) |->
                            Arr([j \in 1..(n - 1) |->
                                   Sub(m1[i + 1][j + 1], Mul(f(i + 1), m1[1][j + 1]))],
                                n - 1)], n - 1)
               r2  == Arr([i \in 1..(n - 1) |-> Sub(r1[i + 1], Mul(f(i + 1), r1[1]))], n - 1)
               tail == lu_solve(m2, r2)
               acc == SumSeq(Arr([j \in 1..(n - 1) |-> Mul(m1[1][j + 1], tail[j])], n - 1))
           IN  <<Div(Sub(r1[1], acc), piv)>> \o tail

\* the matrix H[:, :-1].T
transpose_square(H) ==
  Arr([i \in 1..Len(H) |-> Arr([j \in 1..Len(H) |-> H[j][i]], Len(H))], Len(H))
solve(H, rhs) == lu_solve(transpose_square(H), rhs)

(***************************************************************************)
(* Pytrees as the entry points see them                                    *)
(***************************************************************************)
Tree(struct, leaves) == [struct |-> struct, leaves |-> leaves]
\* the absent argument x0=None
NoneTree == Tree("None", <<>>)
\* the absent integer argument (maxiter=None)
NoneInt == -1
\* the preconditioner argument: None, or a function given by its matrix
NoneM == [none |-> TRUE, mat |-> <<>>]
GivenM(mat) == [none |-> FALSE, mat |-> mat]

tree_structure(t) == t.struct
tree_leaves(t) == t.leaves
shapes(t) == Arr([i \in 1..Len(tree_leaves(t)) |-> Len(tree_leaves(t)[i])], Len(tree_leaves(t)))

RECURSIVE Concat(_)
Concat(ls) == IF Len(ls) = 0 THEN <<>> ELSE Concat(SubSeq(ls, 1, Len(ls) - 1)) \o ls[Len(ls)]
Flat(t) == Concat(tree_leaves(t))

\* tree_map(jnp.zeros_like, b)
zeros_like_tree(t) ==
  Tree(t.struct, Arr([i \in 1..Len(t.leaves) |-> ZerosLike(t.leaves[i])], Len(t.leaves)))

\* sum(bi.size for bi in tree_leaves(b))
tree_size(t) == Len(Flat(t))

(***************************************************************************)
(* Arguments the model calls the entry points with                         *)
(***************************************************************************)
\* largest explicit maxiter, largest explicit restart
MaxIter == 2
MaxRestart == 3
\* restart=20 of gmres' signature
DefaultRestart == 20
\* tol=1e-5 of both signatures
DefaultTolExp == 5
DefaultTol == Fin(1, -DefaultTolExp)

Vec(ints) == Arr([i \in 1..Len(ints) |-> I(ints[i])], Len(ints))
Mat(rows) == Arr([i \in 1..Len(rows) |-> Vec(rows[i])], Len(rows))
Leaf(ints) == Tree("*", <<Vec(ints)>>)

TwoI == <<<<2, 0>>, <<0, 2>>>>
Swap == <<<<0, 1>>, <<1, 0>>>>
Rot == <<<<3, -4>>, <<4, 3>>>>
Spd == <<<<2, 1>>, <<1, 2>>>>
Tri == <<<<2, 1, 0>>, <<1, 2, 1>>, <<0, 1, 2>>>>

\* the linear systems A x = b the model solves
Systems ==
  {[A |-> Mat(<<<<a>>>>), b |-> Leaf(<<c>>)] : a \in {2, 0}, c \in {6, 0}}
  \cup {[A |-> Mat(m), b |-> Leaf(c)] :
          m \in {TwoI, Swap, Rot, Spd}, c \in {<<6, 0>>, <<0, 0>>}}
  \cup {[A |-> Mat(Spd), b |-> Leaf(<<3, 4>>)],
        [A |-> Mat(Tri), b |-> Leaf(<<6, 0, 0>>)],
        [A |-> Mat(TwoI), b |-> Tree("(*, *)", <<Vec(<<3>>), Vec(<<4>>)>>)]}

\* a tree of b's structure and shapes holding val in its first entry and rest elsewhere
Filled(b, val, rest) ==
  Tree(b.struct,
       Arr([i \in 1..Len(b.leaves) |->
              Arr([j \in 1..Len(b.leaves[i]) |-> IF i = 1 /\ j = 1 THEN val ELSE rest],
                  Len(b.leaves[i]))], Len(b.leaves)))
\* the same entries under another tree structure
Restructured(b) ==
  IF b.struct = "*"
  THEN Tree("(*, *)", <<b.leaves[1], <<>>>>)
  ELSE Tree("*", <<Flat(b)>>)
\* the same tree structure with one leaf of another shape
Reshaped(b) == Tree(b.struct, [b.leaves EXCEPT ![1] = b.leaves[1] \o <<Zero, Zero>>])

\* the starting guesses tried for b: absent, congruent to b, or not
X0For(b) ==
  {NoneTree, Filled(b, One, One), Filled(b, I(3), Zero), Filled(b, PInf, Zero),
   Restructured(b), Reshaped(b)}

HalfI(n) ==
  Arr([i \in 1..n |-> Arr([j \in 1..n |-> IF i = j THEN Fin(5, -1) ELSE Zero], n)], n)

\* the tolerances and preconditioners tried for b
Settings(b) ==
  {[tol |-> DefaultTol, atol |-> Zero, M |-> NoneM],
   [tol |-> Fin(5, -1), atol |-> Zero, M |-> NoneM],
   [tol |-> DefaultTol, atol |-> I(10), M |-> NoneM],
   [tol |-> DefaultTol, atol |-> Zero, M |-> GivenM(HalfI(tree_size(b)))],
   [tol |-> Neg(DefaultTol), atol |-> Neg(One), M |-> NoneM]}

(***************************************************************************)
(* State                                                                   *)
(***************************************************************************)
VARIABLES
  args,    \* the call: solver, A, b, x0, tol, atol, maxiter, restart, M, qr_mode
  pc,      \* where the call is
  loc,     \* the entry point's locals once the arguments are resolved
  Acalls,  \* how many times the operator A has been applied
  value,   \* the CG loop state (x, r, gamma, p, k)
  outer,   \* the GMRES outer loop state (x, k, unit_residual, residual_norm)
  carry,   \* the state of the restart in progress
  ret      \* what the call returned or raised

vars == <<args, pc, loc, Acalls, value, outer, carry, ret>>

NoLoc ==
  [x0 |-> <<>>, b |-> <<>>, maxiter |-> 0, restart |-> 0, M |-> identity,
   atol2 |-> Zero, b_norm |-> Zero, outer_tol |-> Zero, inner_tol |-> Zero,
   gmres_func |-> "", congruent |-> TRUE]
NoValue == [x |-> <<>>, r |-> <<>>, gamma |-> Zero, p |-> <<>>, k |-> 0]
NoOuter == [x |-> <<>>, k |-> 0, unit_residual |-> <<>>, residual_norm |-> Zero]
NoCarry ==
  [k |-> 0, err |-> Zero, V |-> <<>>, H |-> <<>>, beta_vec |-> <<>>, givens |-> <<>>,
   breakdown |-> FALSE, broke |-> FALSE, after |-> 0]
NoRet == [x |-> <<>>, info |-> "", raised |-> ""]

Init ==
  /\ \E sv \in {"cg", "gmres"}, sys \in Systems, mi \in {NoneInt} \cup 0..MaxIter,
        qr \in BOOLEAN :
       \E x0 \in X0For(sys.b), st \in Settings(sys.b),
          rs \in IF sv = "cg" THEN {DefaultRestart} ELSE 1..MaxRestart \cup {DefaultRestart} :
         /\ (sv = "cg" => ~qr)
         /\ args = [solver |-> sv, A |-> sys.A, b |-> sys.b, x0 |-> x0, tol |-> st.tol,
                    atol |-> st.atol, maxiter |-> mi, restart |-> rs, M |-> st.M,
                    qr_mode |-> qr]
  /\ pc = "call"
  /\ loc = NoLoc
  /\ Acalls = 0
  /\ value = NoValue
  /\ outer = NoOuter
  /\ carry = NoCarry
  /\ ret = NoRet

(***************************************************************************)
(* Entry points                                                            *)
(***************************************************************************)
\* the defaults both entry points resolve
ResolveX0(a) == IF a.x0 = NoneTree THEN zeros_like_tree(a.b) ELSE a.x0
ResolveMaxiter(a) == IF a.maxiter = NoneInt THEN 10 * tree_size(a.b) ELSE a.maxiter
ResolveM(a) == IF a.M.none THEN identity ELSE Op(a.M.mat)

Raise(what) ==
  /\ pc' = "raised"
  /\ ret' = [ret EXCEPT !.raised = what]

\* cg, up to the call of the differentiable-solve wrapper
cg ==
  /\ pc = "call"
  /\ args.solver = "cg"
  /\ LET x0 == ResolveX0(args)
     IN  IF tree_structure(x0) # tree_structure(args.b)
         THEN Raise("ValueError: x0 and b must have matching tree structure")
              /\ UNCHANGED loc
         ELSE IF shapes(x0) # shapes(args.b)
         THEN Raise("ValueError: arrays in x0 and b must have matching shapes")
              /\ UNCHANGED loc
         ELSE /\ pc' = "cg_solve"
              /\ loc' = [NoLoc EXCEPT !.x0 = Flat(x0), !.b = Flat(args.b),
                                      !.maxiter = ResolveMaxiter(args),
                                      !.M = ResolveM(args)]
              /\ UNCHANGED ret
  /\ UNCHANGED <<args, Acalls, value, outer, carry>>

\* the test of b_norm with the early return left out
b_is_zero_never(b_norm) == FALSE

\* if b_norm == 0
b_is_zero(b_norm) == FEq(b_norm, Zero)

\* the restart function gmres hands to _gmres_solve for a qr_mode
select_gmres_func(qr_mode) == IF qr_mode THEN "_gmres_plain" ELSE "_gmres_qr"

\* gmres, up to the call of the differentiable-solve wrapper
gmres ==
  /\ pc = "call"
  /\ args.solver = "gmres"
  /\ LET x0      == ResolveX0(args)
         M       == ResolveM(args)
         size    == tree_size(args.b)
         maxiter == ResolveMaxiter(args)
         restart == IMin(args.restart, size)
         b       == Flat(args.b)
         b_norm  == norm_tree(b)
         outer_tol == FMaximum(Mul(args.tol, b_norm), args.atol)
         Mb_norm == norm_tree(Apply(M, b))
         inner_tol == Mul(Mb_norm, PyMin(One, Div(outer_tol, b_norm)))
     IN  IF tree_structure(x0) # tree_structure(args.b)
         THEN Raise("ValueError: x0 and b must have matching tree structure")
              /\ UNCHANGED loc
         ELSE IF b_is_zero(b_norm)
         THEN /\ pc' = "done"
              /\ ret' = [ret EXCEPT !.x = b, !.info = "0"]
              /\ UNCHANGED loc
         ELSE /\ pc' = "gmres_solve"
              /\ loc' = [NoLoc EXCEPT !.x0 = Flat(x0), !.b = b, !.maxiter = maxiter,
                                      !.restart = restart, !.M = M, !.b_norm = b_norm,
                                      !.outer_tol = outer_tol, !.inner_tol = inner_tol,
                                      !.gmres_func = select_gmres_func(args.qr_mode),
                                      !.congruent = (shapes(x0) = shapes(args.b))]
              /\ UNCHANGED ret
  /\ UNCHANGED <<args, Acalls, value, outer, carry>>

(***************************************************************************)
(* CG solver                                                               *)
(***************************************************************************)
\* atol2 = jnp.maximum(jnp.square(tol) * bs, jnp.square(atol))
cg_atol2(tol, atol, b) ==
  FMaximum(Mul(Square(tol), vdot_real_tree(b, b)), Square(atol))

\* _cg_solve up to the loop: the initial value of the iteration
cg_solve ==
  /\ pc = "cg_solve"
  /\ LET r0 == sub(loc.b, Apply(Op(args.A), loc.x0))
         z0 == Apply(loc.M, r0)
         gamma0 == vdot_real_tree(r0, z0)
     IN  /\ value' = [x |-> loc.x0, r |-> r0, gamma |-> gamma0, p |-> z0, k |-> 0]
         /\ loc' = [loc EXCEPT !.atol2 = cg_atol2(args.tol, args.atol, loc.b)]
  /\ Acalls' = Acalls + 1
  /\ pc' = "cg_loop"
  /\ UNCHANGED <<args, outer, carry, ret>>

\* cond_fun with the iteration bound off by one
cg_cond_fun_le(v, M, atol2, maxiter) ==
  LET rs == IF M = identity THEN v.gamma ELSE vdot_real_tree(v.r, v.r)
  IN  Gt(rs, atol2) /\ v.k <= maxiter

\* cond_fun of _cg_solve
cg_cond_fun(v, M, atol2, maxiter) ==
  LET rs == IF M = identity THEN v.gamma ELSE vdot_real_tree(v.r, v.r)
  IN  Gt(rs, atol2) /\ v.k < maxiter

\* the step length with p in the place of A(p)
cg_alpha_pp(gamma, p, Ap) == Div(gamma, vdot_real_tree(p, p))

\* alpha = gamma / _vdot_real_tree(p, Ap)
cg_alpha(gamma, p, Ap) == Div(gamma, vdot_real_tree(p, Ap))

\* body_fun of _cg_solve
cg_body_fun(v, A, M) ==
  LET Ap     == Apply(A, v.p)
      alpha  == cg_alpha(v.gamma, v.p, Ap)
      x_     == add(v.x, mul(alpha, v.p))
      r_     == sub(v.r, mul(alpha, Ap))
      z_     == Apply(M, r_)
      gamma_ == vdot_real_tree(r_, z_)
      beta_  == Div(gamma_, v.gamma)
      p_     == add(z_, mul(beta_, v.p))
  IN  [x |-> x_, r |-> r_, gamma |-> gamma_, p |-> p_, k |-> v.k + 1]

\* one turn of lax.while_loop(cond_fun, body_fun, initial_value)
cg_step ==
  /\ pc = "cg_loop"
  /\ cg_cond_fun(value, loc.M, loc.atol2, loc.maxiter)
  /\ value' = cg_body_fun(value, Op(args.A), loc.M)
  /\ Acalls' = Acalls + 1
  /\ UNCHANGED <<args, pc, loc, outer, carry, ret>>

\* the loop is left: _cg_solve returns x_final and cg returns (x, None)
cg_return ==
  /\ pc = "cg_loop"
  /\ ~cg_cond_fun(value, loc.M, loc.atol2, loc.maxiter)
  /\ ret' = [ret EXCEPT !.x = value.x, !.info = "None"]
  /\ pc' = "done"
  /\ UNCHANGED <<args, loc, Acalls, value, outer, carry>>

(***************************************************************************)
(* GMRES solver                                                            *)
(***************************************************************************)
\* _gmres_solve up to the loop.  x0 of another shape than b reaches A here,
\* and the product or the subtraction from b then fails on the shapes.
gmres_solve ==
  /\ pc = "gmres_solve"
  /\ Acalls' = Acalls + 1
  /\ IF ~loc.congruent
     THEN Raise("TypeError: incompatible shapes") /\ UNCHANGED outer
     ELSE LET residual == sub(loc.b, Apply(Op(args.A), loc.x0))
              sn == safe_normalize(residual, Eps)
          IN  /\ outer' = [x |-> loc.x0, k |-> 0, unit_residual |-> sn[1],
                           residual_norm |-> sn[2]]
              /\ pc' = "gmres_loop"
              /\ UNCHANGED ret
  /\ UNCHANGED <<args, loc, value, carry>>

\* cond_fun with the restart bound off by one
gmres_cond_fun_le(o, maxiter, outer_tol) ==
  o.k <= maxiter /\ Gt(o.residual_norm, outer_tol)

\* cond_fun of _gmres_solve
gmres_cond_fun(o, maxiter, outer_tol) == o.k < maxiter /\ Gt(o.residual_norm, outer_tol)

\* V: the unit residual followed by restart zero columns
initial_basis(unit_residual, restart) ==
  Arr([c \in 1..(restart + 1) |->
         IF c = 1 THEN unit_residual ELSE ZerosLike(unit_residual)], restart + 1)

\* a loop state that keeps the rotation table of the restart before
qr_initial_carry_stale(unit_residual, residual_norm, restart) ==
  [k |-> 0, err |-> residual_norm,
   V |-> initial_basis(unit_residual, restart),
   H |-> eye(restart, restart + 1),
   beta_vec |-> Arr([i \in 1..(restart + 1) |-> IF i = 1 THEN residual_norm ELSE Zero],
                    restart + 1),
   givens |-> IF Len(carry.givens) = restart THEN carry.givens
              ELSE Arr([i \in 1..restart |-> <<Zero, Zero>>], restart),
   breakdown |-> FALSE, broke |-> FALSE, after |-> 0]

\* the loop state _gmres_qr starts from (lines 323-335 and 356)
qr_initial_carry(unit_residual, residual_norm, restart) ==
  [k |-> 0, err |-> residual_norm,
   V |-> initial_basis(unit_residual, restart),
   H |-> eye(restart, restart + 1),
   beta_vec |-> Arr([i \in 1..(restart + 1) |-> IF i = 1 THEN residual_norm ELSE Zero],
                    restart + 1),
   givens |-> Arr([i \in 1..restart |-> <<Zero, Zero>>], restart),
   breakdown |-> FALSE, broke |-> FALSE, after |-> 0]

\* the loop state _gmres_plain starts from (lines 377-382 and 396)
plain_initial_carry(unit_residual, restart) ==
  [k |-> 0, err |-> Zero,
   V |-> initial_basis(unit_residual, restart),
   H |-> eye(restart, restart + 1),
   beta_vec |-> <<>>, givens |-> <<>>,
   breakdown |-> FALSE, broke |-> FALSE, after |-> 0]

\* body_fun of _gmres_solve calls gmres_func: a restart begins
restart_begin ==
  /\ pc = "gmres_loop"
  /\ gmres_cond_fun(outer, loc.maxiter, loc.outer_tol)
  /\ carry' = IF loc.gmres_func = "_gmres_qr"
              THEN qr_initial_carry(outer.unit_residual, outer.residual_norm, loc.restart)
              ELSE plain_initial_carry(outer.unit_residual, loc.restart)
  /\ pc' = loc.gmres_func
  /\ UNCHANGED <<args, loc, Acalls, value, outer, ret>>

\* loop_cond of _gmres_qr
qr_loop_cond(c, restart, inner_tol) == c.k < restart /\ Gt(c.err, inner_tol)

\* the residual estimate of arnoldi_qr_step: err = jnp.abs(sn) / b_norm
qr_err(sn, b_norm) == Div(FAbs(sn), b_norm)

\* arnoldi_qr_step of _gmres_qr after its two calls: ar is what
\* kth_arnoldi_iteration returned and gr what apply_givens_rotations returned.
\* The fields broke and after record, for the properties, whether a step of
\* this restart signalled breakdown and how many steps followed it; the code
\* drops the flag.
arnoldi_qr_step_fun(c, ar, gr, b_norm) ==
  LET cs == Mul(gr[2][c.k + 1][1], c.beta_vec[c.k + 1])
      sn == Mul(gr[2][c.k + 1][2], c.beta_vec[c.k + 1])
  IN  [k |-> c.k + 1, err |-> qr_err(sn, b_norm), V |-> ar.V,
       H |-> [c.H EXCEPT ![c.k + 1] = gr[1]],
       beta_vec |-> [c.beta_vec EXCEPT ![c.k + 1] = cs, ![c.k + 2] = sn],
       givens |-> gr[2], breakdown |-> ar.breakdown,
       broke |-> c.broke \/ ar.breakdown,
       after |-> c.after + (IF c.broke THEN 1 ELSE 0)]

arnoldi_qr_step ==
  /\ pc = "_gmres_qr"
  /\ qr_loop_cond(carry, loc.restart, loc.inner_tol)
  /\ \E ar \in {kth_arnoldi_iteration(carry.k, Op(args.A), loc.M, carry.V, carry.H,
                                      loc.inner_tol)} :
       \E gr \in {apply_givens_rotations(ar.H[carry.k + 1], carry.givens, carry.k)} :
         carry' = arnoldi_qr_step_fun(carry, ar, gr, loc.b_norm)
  /\ Acalls' = Acalls + 1
  /\ UNCHANGED <<args, pc, loc, value, outer, ret>>

\* what a restart returns from its basis, matrix and coefficients y
project(c, y, x0, A, M, b) ==
  LET Vy == dot_tree(c.V, y)
      dx == Apply(M, Vy)
      x  == add(x0, dx)
      residual == sub(b, Apply(A, x))
      sn == safe_normalize(residual, Eps)
  IN  [x |-> x, unit_residual |-> sn[1], residual_norm |-> sn[2]]

\* the coefficients of the QR variant
qr_coefficients(c) ==
  solve_triangular(c.H, SubSeq(c.beta_vec, 1, Len(c.beta_vec) - 1))

\* the rest of _gmres_qr and of body_fun
gmres_qr_finish ==
  /\ pc = "_gmres_qr"
  /\ ~qr_loop_cond(carry, loc.restart, loc.inner_tol)
  /\ LET res == project(carry, qr_coefficients(carry), outer.x, Op(args.A), loc.M, loc.b)
     IN  outer' = [x |-> res.x, k |-> outer.k + 1, unit_residual |-> res.unit_residual,
                   residual_norm |-> res.residual_norm]
  /\ Acalls' = Acalls + 1
  /\ pc' = "gmres_loop"
  /\ UNCHANGED <<args, loc, value, carry, ret>>

\* loop_cond that does not look at the breakdown flag
plain_loop_cond_noflag(c, restart) == c.k < restart

\* loop_cond of _gmres_plain
plain_loop_cond(c, restart) == c.k < restart /\ ~c.breakdown

\* arnoldi_process of _gmres_plain
arnoldi_process_fun(c, A, M, inner_tol) ==
  LET ar == kth_arnoldi_iteration(c.k, A, M, c.V, c.H, inner_tol)
  IN  [c EXCEPT !.V = ar.V, !.H = ar.H, !.breakdown = ar.breakdown, !.k = c.k + 1,
                !.broke = c.broke \/ ar.breakdown,
                !.after = c.after + (IF c.broke THEN 1 ELSE 0)]

arnoldi_process ==
  /\ pc = "_gmres_plain"
  /\ plain_loop_cond(carry, loc.restart)
  /\ carry' = arnoldi_process_fun(carry, Op(args.A), loc.M, loc.inner_tol)
  /\ Acalls' = Acalls + 1
  /\ UNCHANGED <<args, pc, loc, value, outer, ret>>

\* the coefficients of the plain variant
plain_coefficients(c, residual_norm, restart) ==
  solve(c.H, Arr([i \in 1..restart |-> IF i = 1 THEN residual_norm ELSE Zero], restart))

\* the rest of _gmres_plain and of body_fun
gmres_plain_finish ==
  /\ pc = "_gmres_plain"
  /\ ~plain_loop_cond(carry, loc.restart)
  /\ LET y   == plain_coefficients(carry, outer.residual_norm, loc.restart)
         res == project(carry, y, outer.x, Op(args.A), loc.M, loc.b)
     IN  outer' = [x |-> res.x, k |-> outer.k + 1, unit_residual |-> res.unit_residual,
                   residual_norm |-> res.residual_norm]
  /\ Acalls' = Acalls + 1
  /\ pc' = "gmres_loop"
  /\ UNCHANGED <<args, loc, value, carry, ret>>

\* failure tests other than the code's: none at all, and any non-finite norm
gmres_failed_never(x) == FALSE
gmres_failed_nonfinite(x) == ~IsFin(norm_tree(x))

\* failed = jnp.isnan(_norm_tree(x))
gmres_failed(x) == IsNan(norm_tree(x))

\* the loop is left: _gmres_solve returns x_final and gmres returns (x, info)
gmres_return ==
  /\ pc = "gmres_loop"
  /\ ~gmres_cond_fun(outer, loc.maxiter, loc.outer_tol)
  /\ ret' = [ret EXCEPT !.x = outer.x,
                        !.info = IF gmres_failed(outer.x) THEN "-1" ELSE "0"]
  /\ pc' = "done"
  /\ UNCHANGED <<args, loc, Acalls, value, outer, carry>>

Next ==
  \/ cg
  \/ cg_solve
  \/ cg_step
  \/ cg_return
  \/ gmres
  \/ gmres_solve
  \/ restart_begin
  \/ arnoldi_qr_step
  \/ gmres_qr_finish
  \/ arnoldi_process
  \/ gmres_plain_finish
  \/ gmres_return

Spec == Init /\ [][Next]_vars

(***************************************************************************)
(* _safe_normalize called on its own                                       *)
(***************************************************************************)
\* the absent argument thresh=None
NoneThresh == [t |-> "none", m |-> 0, e |-> 0]
\* if thresh is None: thresh = jnp.finfo(norm.dtype).eps
ResolveThresh(thresh) == IF thresh = NoneThresh THEN Eps ELSE thresh

\* the entries, vectors and thresholds the function is called with
NormEntries ==
  {Zero, Fin(5, -4), Eps, One, I(3), I(4), Neg(One), NaN, PInf}
NormVectors ==
  {<<a>> : a \in NormEntries} \cup {<<a, c>> : a, c \in NormEntries}
NormThresholds ==
  {NoneThresh, Zero, One, I(5), Fin(6, -DefaultTolExp), Neg(One), NaN}

NormalizeInit ==
  /\ \E x \in NormVectors, th \in NormThresholds, rn \in BOOLEAN :
       args = [x |-> x, thresh |-> th, return_norm |-> rn]
  /\ pc = "safe_normalize"
  /\ loc = NoLoc
  /\ Acalls = 0
  /\ value = NoValue
  /\ outer = NoOuter
  /\ carry = NoCarry
  /\ ret = NoRet

\* _safe_normalize(x, return_norm, thresh): ret.x is what it returns, the
\* pair <<normalized_x, norm>> or normalized_x alone
safe_normalize_call ==
  /\ pc = "safe_normalize"
  /\ \E out \in {safe_normalize(args.x, ResolveThresh(args.thresh))} :
       ret' = [ret EXCEPT !.x = IF args.return_norm THEN out ELSE out[1]]
  /\ pc' = "done"
  /\ UNCHANGED <<args, loc, Acalls, value, outer, carry>>

NormalizeNext == safe_normalize_call

NormalizeSpec == NormalizeInit /\ [][NormalizeNext]_vars

(***************************************************************************)
(* Properties                                                              *)
(***************************************************************************)
\* x <= y on floating-point values (false when either is NaN)
Le(x, y) == Lt(x, y) \/ FEq(x, y)
\* what a vector holds
HasNan(x) == \E i \in 1..Len(x) : IsNan(x[i])
HasInf(x) == \E i \in 1..Len(x) : IsInf(x[i])
IsZeroVec(x) == \A i \in 1..Len(x) : x[i] = Zero

\* the call fell through to a result (gmres also ends here on its early return)
Returned == pc = "done"
\* the validation errors of the entry points
ValidationErrors ==
  {"ValueError: x0 and b must have matching tree structure",
   "ValueError: arrays in x0 and b must have matching shapes"}
\* x0 differs from b in tree structure or in the shape of a leaf
Mismatched ==
  \/ tree_structure(ResolveX0(args)) # tree_structure(args.b)
  \/ shapes(ResolveX0(args)) # shapes(args.b)

\* C1 (as the specification states it): for cg and for gmres, a call whose x0
\* differs from b in tree structure or in a leaf's shape raises a validation
\* error, and A has not been applied before it.  gmres compares tree
\* structures only, so this fails for gmres with an x0 of another shape.
C1_MismatchRaisesBeforeA ==
  Mismatched =>
    /\ Acalls = 0
    /\ pc \in {"call", "raised"}
    /\ pc = "raised" => ret.raised \in ValidationErrors

\* a gmres call with an x0 of another shape got past the entry point: A was
\* applied to it, or the call returned without any error
C1_GmresShapeMismatchGotThrough ==
  /\ args.solver = "gmres"
  /\ Mismatched
  /\ \/ Acalls > 0
     \/ Returned /\ ret.raised = ""

\* C2 (as the specification states it): every restart of a gmres call is run
\* by _gmres_qr when qr_mode is True and by _gmres_plain when it is False.
\* The code hands _gmres_plain to the solve when qr_mode is True, and
\* _gmres_qr when it is False.
C2_QrModeSelectsDocumentedVariant ==
  pc \in {"_gmres_qr", "_gmres_plain"} =>
    pc = (IF args.qr_mode THEN "_gmres_qr" ELSE "_gmres_plain")

\* a restart of a qr_mode=True call is in _gmres_plain after an Arnoldi step
C2_QrModeRunsPlain ==
  args.qr_mode /\ pc = "_gmres_plain" /\ carry.k > 0

C5_InfReportedAsFailure ==
  (args.solver = "gmres" /\ Returned /\ HasInf(ret.x) /\ ~HasNan(ret.x)) =>
    ret.info = "-1"

\* C5 (amended): a returned x that holds an infinite value and no NaN is
\* reported as success, info = 0; only a NaN in x is reported as failure.
C5_InfWithoutNanReportedAsSuccess ==
  (args.solver = "gmres" /\ Returned /\ HasInf(ret.x)) =>
    /\ ~HasNan(ret.x) => ret.info = "0"
    /\ HasNan(ret.x) => ret.info = "-1"

\* gmres returned an x with an infinite entry and no NaN
C5_InfReturned ==
  /\ args.solver = "gmres" /\ Returned
  /\ ~IsZeroVec(Flat(args.b))
  /\ HasInf(ret.x) /\ ~HasNan(ret.x)


\* the residual indicator of the CG loop state
CgIndicator ==
  IF loc.M = identity THEN value.gamma ELSE vdot_real_tree(value.r, value.r)
\* k < maxiter and indicator > atol2
CgContinues == value.k < loc.maxiter /\ Gt(CgIndicator, loc.atol2)
\* the indicator of the initial state: r0 = b - A(x0), whose gamma is
\* vdot(r0, r0) under the identity preconditioner
CgInitialIndicator ==
  LET r0 == sub(loc.b, Apply(Op(args.A), loc.x0))
  IN  vdot_real_tree(r0, r0)
\* a step out of the loop head is a body step exactly when CgContinues, and
\* the return of the current iterate with info = None otherwise
CgLoopStep ==
  pc = "cg_loop" =>
    IF CgContinues
    THEN pc' = "cg_loop" /\ value'.k = value.k + 1 /\ Acalls' = Acalls + 1
    ELSE pc' = "done" /\ value' = value /\ ret'.x = value.x /\ ret'.info = "None"
         /\ ret'.raised = "" /\ Acalls' = Acalls
CgLoopInv ==
  (args.solver = "cg" /\ pc \in {"cg_loop", "done"}) =>
    /\ value.k <= loc.maxiter
    /\ Acalls = value.k + 1
    /\ Returned =>
         /\ ~CgContinues
         /\ ret.x = value.x /\ ret.info = "None" /\ ret.raised = ""
         /\ (loc.maxiter = 0 \/ ~Gt(CgInitialIndicator, loc.atol2)) =>
              value.k = 0 /\ ret.x = loc.x0

\* C6: the CG loop takes a step from (x, r, gamma, p, k) if and only if
\* k < maxiter and the indicator (gamma under the identity preconditioner,
\* vdot_real(r, r) otherwise) exceeds atol2; k <= maxiter in every state; the
\* loop ends after at most maxiter steps (every step out of the loop head
\* either returns or raises k by one, and k never exceeds maxiter); it takes
\* no step and returns x0 when the initial indicator is not above atol2 or
\* maxiter = 0; and the call returns the last iterate with info = None,
\* without an error.
C6_CgLoop ==
  /\ []CgLoopInv
  /\ [][CgLoopStep]_vars

\* cg used up maxiter >= 1 steps with the indicator still above atol2 and
\* returned its last iterate with info = None
C6_CgExhausted ==
  /\ args.solver = "cg" /\ Returned
  /\ value.k = loc.maxiter /\ value.k >= 1
  /\ Gt(CgIndicator, loc.atol2)
  /\ ret.x = value.x /\ ret.x # loc.x0 /\ ret.info = "None"

\* the norm of b - A(x), computed anew
TrueResidualNorm(x) == norm_tree(sub(loc.b, Apply(Op(args.A), x)))
\* k < maxiter and residual_norm > outer_tol
GmresContinues == outer.k < loc.maxiter /\ Gt(outer.residual_norm, loc.outer_tol)
InRestart == pc \in {"_gmres_qr", "_gmres_plain"}
\* a step out of the outer loop head begins a restart exactly when
\* GmresContinues and returns x otherwise; a restart that ends counts as one
GmresLoopStep ==
  /\ pc = "gmres_loop" =>
       IF GmresContinues
       THEN pc' \in {"_gmres_qr", "_gmres_plain"} /\ outer' = outer
       ELSE pc' = "done" /\ outer' = outer /\ ret'.x = outer.x
  /\ InRestart =>
       \/ pc' = pc /\ outer' = outer
       \/ pc' = "gmres_loop" /\ outer'.k = outer.k + 1
GmresLoopInv ==
  (args.solver = "gmres" /\ (pc = "gmres_loop" \/ InRestart \/ (Returned /\ loc # NoLoc))) =>
    /\ outer.k <= loc.maxiter
    /\ InRestart => outer.k < loc.maxiter
    /\ (pc = "gmres_loop" /\ Le(TrueResidualNorm(outer.x), loc.outer_tol)) => ~GmresContinues
    /\ Returned =>
         /\ ~GmresContinues
         /\ ret.x = outer.x
         /\ Le(TrueResidualNorm(loc.x0), loc.outer_tol) => outer.k = 0 /\ ret.x = loc.x0

\* C7: the GMRES outer loop runs a restart from (x, k, unit_residual,
\* residual_norm) if and only if k < maxiter and residual_norm > outer_tol; the
\* number of restarts never exceeds maxiter; the loop ends (every step out of
\* the loop head either returns or begins a restart, a restart that ends raises
\* k by one, and k never exceeds maxiter); it ends at the first restart
\* boundary where the norm of b - A(x) is <= outer_tol; and when the norm of
\* b - A(x0) is <= outer_tol no restart is run and x0 is returned.
C7_GmresOuterLoop ==
  /\ []GmresLoopInv
  /\ [][GmresLoopStep]_vars

\* gmres ran one restart, found the residual norm of the new x within
\* outer_tol with restarts to spare, and returned that x
C7_StoppedAtRestartBoundary ==
  /\ args.solver = "gmres" /\ Returned
  /\ outer.k = 1 /\ loc.maxiter >= 2
  /\ Gt(TrueResidualNorm(loc.x0), loc.outer_tol)
  /\ Le(TrueResidualNorm(outer.x), loc.outer_tol)
  /\ ret.x = outer.x /\ ret.x # loc.x0

\* the scenario of C8: A(x) = 2x on scalars, b = 6, x0 = 0, tol = 1e-5,
\* atol = 0, no preconditioner, maxiter left at its default
ScalarScenario ==
  /\ args.A = Mat(<<<<2>>>>) /\ args.b = Leaf(<<6>>)
  /\ ResolveX0(args) = Leaf(<<0>>)
  /\ args.tol = DefaultTol /\ args.atol = Zero /\ args.M = NoneM
  /\ args.maxiter = NoneInt

C10_EstimateIsRunningResidualNorm ==
  pc = "_gmres_qr" =>
    /\ carry.k <= loc.restart
    /\ carry.err = FAbs(carry.beta_vec[carry.k + 1])

\* the QR build loop stopped short of restart columns with the residual norm
\* of the running right-hand side still above inner_tol
C10_StoppedAboveInnerTol ==
  /\ pc = "_gmres_qr"
  /\ carry.k >= 1 /\ carry.k < loc.restart
  /\ ~qr_loop_cond(carry, loc.restart, loc.inner_tol)
  /\ Gt(FAbs(carry.beta_vec[carry.k + 1]), loc.inner_tol)


\* what a call of _safe_normalize returned: the vector, and the norm if asked for
NormalizedX == IF args.return_norm THEN ret.x[1] ELSE ret.x
\* the norm of the argument and the threshold in force, computed anew
ArgNorm == norm_tree(args.x)
ArgThresh == IF args.thresh = NoneThresh THEN Eps ELSE args.thresh

ResidualOf(x) == safe_normalize(sub(loc.b, Apply(Op(args.A), x)), Eps)
\* the zero vector of b's size, and n of them
ZeroColumn == [i \in 1..Len(loc.b) |-> Zero]
\* what a restart starts from, written out from x alone: the basis is the unit
\* residual of x followed by restart zero columns, the matrix is the
\* restart x (restart+1) identity, and for the QR variant the rotation table
\* is zero and the right-hand side is the residual norm followed by zeros
FreshBasis(x) ==
  [c \in 1..(loc.restart + 1) |-> IF c = 1 THEN ResidualOf(x)[1] ELSE ZeroColumn]
FreshMatrix ==
  [i \in 1..loc.restart |-> [j \in 1..(loc.restart + 1) |-> IF i = j THEN One ELSE Zero]]
StartsFresh(c, x) ==
  /\ c.k = 0 /\ ~c.breakdown /\ ~c.broke /\ c.after = 0
  /\ c.V = FreshBasis(x)
  /\ c.H = FreshMatrix
  /\ loc.gmres_func = "_gmres_qr" =>
       /\ c.givens = [i \in 1..loc.restart |-> <<Zero, Zero>>]
       /\ c.beta_vec =
            [i \in 1..(loc.restart + 1) |-> IF i = 1 THEN ResidualOf(x)[2] ELSE Zero]
       /\ c.err = ResidualOf(x)[2]
\* the residual the outer loop hands on is that of the x it hands on
ResidualFollowsX ==
  (pc = "gmres_loop" \/ InRestart) =>
    <<outer.unit_residual, outer.residual_norm>> = ResidualOf(outer.x)
\* a restart that begins starts from a state made from the current x alone
RestartBeginsFresh ==
  (pc = "gmres_loop" /\ pc' \in {"_gmres_qr", "_gmres_plain"}) =>
    StartsFresh(carry', outer.x)

\* C12: across GMRES restarts only x is carried.  Every restart begins with a
\* fresh basis (the unit residual of the current x padded with zeros), a fresh
\* rectangular identity matrix, a zero rotation table and a fresh right-hand
\* side, whatever the restart before left behind; the unit residual and
\* residual norm a restart receives are those of b - A(x) for the current x.
C12_RestartStateIsFresh ==
  /\ []ResidualFollowsX
  /\ [][RestartBeginsFresh]_vars

\* a second restart of the QR variant has begun, from a new x, after a restart
\* that had filled its basis, matrix and rotation table
C12_SecondRestartBegun ==
  /\ pc = "_gmres_qr" /\ carry.k = 0
  /\ outer.k = 1 /\ outer.x # loc.x0
  /\ loc.restart = 2
  /\ StartsFresh(carry, outer.x)

=============================================================================
